---- MODULE Spec2Model ----
(***************************************************************************)
(* close-file: closing a std::fs::File and reporting the error of the OS   *)
(* close primitive (src/src/lib.rs).  The model holds the OS descriptor /  *)
(* handle table, the thread-local last OS error, the file objects of the   *)
(* caller, and the Result each close() call returned.                      *)
(***************************************************************************)
EXTENDS Integers, FiniteSets, Sequences, TLC

\* Number of file objects the caller creates (opened or rebuilt from a raw value).
MaxFiles == 2

Objs == 1..MaxFiles
\* Raw descriptor / handle values the OS hands out.
Raws == 1..MaxFiles
\* Error codes an OS call may leave in the thread-local last error (EIO, ENOSPC).
FailCodes == {5, 28}
\* Outcome of one OS call: 0 for success, or the error code it reports.
Outcomes == {0} \cup FailCodes
\* What the close primitive reports for a value that names no open file
\* (EBADF on unix, ERROR_INVALID_HANDLE on windows).
BadHandle == [unix |-> 9, windows |-> 6]

VARIABLES
    platform,  \* "unix" or "windows": which cfg of the crate is compiled
    tab,       \* OS table: raw value -> open-file instance, 0 when free
    errno,     \* thread-local last OS error
    nextObj,   \* next file object the caller creates
    files,     \* file objects: st, raw value, OS instance
    res,       \* the Result of close() on each object, as held by the caller
    sys,       \* close() of each object: what the OS primitive answered (rc,
               \* the error it reported) and which kind of Result was returned
    ncalls,    \* invocations of the OS close primitive made for each object
    shown      \* the caller's latest reading of a CloseError

vars == <<platform, tab, errno, nextObj, files, res, sys, ncalls, shown>>

NoFile == [st |-> "Unborn", raw |-> 0, inst |-> 0]
NoRes == [kind |-> "none", io_error |-> 0, raw |-> 0]
Gone == [kind |-> "gone", io_error |-> 0, raw |-> 0]
NoSys == [done |-> FALSE, rc |-> 0, oserr |-> 0, ret |-> "none"]
NoShown == [obj |-> 0, what |-> "none", val |-> 0, text |-> <<>>]

------------------------------------------------------------------------------
(* The OS close primitives *)

\* libc::close(fd): 0 on success, -1 on failure with errno set.  The descriptor
\* is released whether or not an error is reported.
LibcClose(t, e, fd, out) ==
    IF t[fd] = 0
    THEN [rc |-> -1, tab |-> t, errno |-> BadHandle.unix, oserr |-> BadHandle.unix]
    ELSE IF out = 0
    THEN [rc |-> 0, tab |-> [t EXCEPT ![fd] = 0], errno |-> e, oserr |-> 0]
    ELSE [rc |-> -1, tab |-> [t EXCEPT ![fd] = 0], errno |-> out, oserr |-> out]

\* kernel32::CloseHandle(handle): nonzero on success, 0 on failure with the last
\* error set.  A failed call leaves the handle open.
CloseHandle(t, e, handle, out) ==
    IF t[handle] = 0
    THEN [rc |-> 0, tab |-> t, errno |-> BadHandle.windows, oserr |-> BadHandle.windows]
    ELSE IF out = 0
    THEN [rc |-> 1, tab |-> [t EXCEPT ![handle] = 0], errno |-> e, oserr |-> 0]
    ELSE [rc |-> 0, tab |-> t, errno |-> out, oserr |-> out]

\* io::Error::last_os_error(): whatever the thread-local last error holds now.
LastOsError(e) == e

------------------------------------------------------------------------------
(* File objects *)

\* self.into_raw_fd(): hands out the raw value; the object gives up the
\* descriptor, so its scope exit releases nothing.
AsRawFd(f) == [raw |-> f.raw, self |-> f]
IntoRawFd(f) == [raw |-> f.raw, self |-> [f EXCEPT !.st = "Moved"]]

\* self.into_raw_handle(): the same on windows.
IntoRawHandle(f) == [raw |-> f.raw, self |-> [f EXCEPT !.st = "Moved"]]

\* File objects that own the OS instance i.
Owners(i) == {o \in Objs : files[o].st = "Open" /\ files[o].inst = i}

------------------------------------------------------------------------------
(* CloseError *)

CloseError(io, raw) == [kind |-> "err", io_error |-> io, raw |-> raw]
OkUnit == [kind |-> "ok", io_error |-> 0, raw |-> 0]

raw_fd(ce) == ce.raw
raw_handle(ce) == ce.raw
as_io_error(ce) == ce.io_error

\* Formatting of io::Error.
IoDisplay(io) == <<"os error", ToString(io)>>
IoDebug(io) == <<"Os", "code", ToString(io)>>

\* impl fmt::Display for CloseError: delegates to the wrapped io::Error.
DisplayWithFd(ce) == <<"os error", ToString(ce.io_error), "fd", ToString(ce.raw)>>
Display(ce) == IoDisplay(ce.io_error)

\* impl fmt::Debug for CloseError: delegates to the wrapped io::Error.
Debug(ce) == IoDebug(ce.io_error)

\* Dropping a CloseError: its fields are an io::Error and a raw value, so
\* nothing in the OS table changes.
DropReleasesHandle(ce, t) == [r \in Raws |-> IF r = ce.raw THEN 0 ELSE t[r]]
DropCloseError(ce, t) == t

------------------------------------------------------------------------------
(* close() *)

\* The branch on the return code, unix.
UnixResultKeepsRc(rc, e, fd) ==
    IF rc = -1 THEN OkUnit ELSE CloseError(LastOsError(e), rc)
UnixResult(rc, e, fd) ==
    IF rc = -1 THEN OkUnit ELSE CloseError(LastOsError(e), fd)

\* The branch on the return code, windows.
WindowsResultInverted(rc, e, handle) ==
    IF rc = 0 THEN OkUnit ELSE CloseError(LastOsError(e), handle)
WindowsResultNoHandle(rc, e, handle) ==
    IF rc # 0 THEN OkUnit ELSE CloseError(LastOsError(e), 0)
WindowsResult(rc, e, handle) ==
    IF rc # 0 THEN OkUnit ELSE CloseError(LastOsError(e), handle)

\* The state of a consumed file object, by what close() returned.
StateAfter(p, r) ==
    IF r.kind = "ok" THEN "Closed"
    ELSE IF p = "unix" THEN "FailedClosed" ELSE "FailedOpen"

\* fs::File::close(self), unix.  out is what the OS answers; out2 is what it
\* would answer to a release at the scope exit of self, which happens only if
\* self still owns the descriptor after the conversion.
UnixClose(f, t, e, out, out2) ==
    LET conv == IntoRawFd(f)
        c == LibcClose(t, e, conv.raw, out)
        ret == UnixResult(c.rc, c.errno, conv.raw)
        owning == conv.self.st = "Open"
        d == IF owning THEN LibcClose(c.tab, c.errno, conv.raw, out2) ELSE c
    IN  [ret |-> ret, tab |-> d.tab, errno |-> d.errno,
         rc |-> c.rc, oserr |-> c.oserr, n |-> IF owning THEN 2 ELSE 1]

\* fs::File::close(self), windows.
WindowsClose(f, t, e, out, out2) ==
    LET conv == IntoRawHandle(f)
        c == CloseHandle(t, e, conv.raw, out)
        ret == WindowsResult(c.rc, c.errno, conv.raw)
        owning == conv.self.st = "Open"
        d == IF owning THEN CloseHandle(c.tab, c.errno, conv.raw, out2) ELSE c
    IN  [ret |-> ret, tab |-> d.tab, errno |-> d.errno,
         rc |-> c.rc, oserr |-> c.oserr, n |-> IF owning THEN 2 ELSE 1]

------------------------------------------------------------------------------
(* The state machine *)

Init ==
    /\ platform \in {"unix", "windows"}
    /\ tab = [r \in Raws |-> 0]
    /\ errno = 0
    /\ nextObj = 1
    /\ files = [o \in Objs |-> NoFile]
    /\ res = [o \in Objs |-> NoRes]
    /\ sys = [o \in Objs |-> NoSys]
    /\ ncalls = [o \in Objs |-> 0]
    /\ shown = NoShown

FreeRaws == {r \in Raws : tab[r] = 0}
LowestFree == CHOOSE r \in FreeRaws : \A q \in FreeRaws : r <= q

\* std::fs::File::create(path).unwrap(): a new file object owning a new open
\* file.  unix hands out the lowest free descriptor, windows any free handle.
Create ==
    /\ nextObj <= MaxFiles
    /\ FreeRaws # {}
    /\ \E r \in FreeRaws :
        /\ platform = "unix" => r = LowestFree
        /\ tab' = [tab EXCEPT ![r] = nextObj]
        /\ files' = [files EXCEPT ![nextObj] =
                        [st |-> "Open", raw |-> r, inst |-> nextObj]]
    /\ nextObj' = nextObj + 1
    /\ UNCHANGED <<platform, errno, res, sys, ncalls, shown>>

\* f.write_all(bytes): another OS call on the same thread; a failure leaves its
\* code in the thread-local last error, a success leaves the last error alone.
Write(o) ==
    /\ files[o].st = "Open"
    /\ \E out \in Outcomes : errno' = IF out = 0 THEN errno ELSE out
    /\ UNCHANGED <<platform, tab, nextObj, files, res, sys, ncalls, shown>>

\* f.close() with cfg(unix).
CloseUnix(o) ==
    /\ platform = "unix"
    /\ files[o].st = "Open"
    /\ \E out \in Outcomes, out2 \in Outcomes :
        LET c == UnixClose(files[o], tab, errno, out, out2) IN
        /\ tab' = c.tab
        /\ errno' = c.errno
        /\ res' = [res EXCEPT ![o] = c.ret]
        /\ sys' = [sys EXCEPT ![o] = [done |-> TRUE, rc |-> c.rc, oserr |-> c.oserr,
                                          ret |-> c.ret.kind]]
        /\ ncalls' = [ncalls EXCEPT ![o] = @ + c.n]
        /\ files' = [files EXCEPT ![o].st = StateAfter(platform, c.ret)]
    /\ UNCHANGED <<platform, nextObj, shown>>

\* f.close() with cfg(windows).
CloseWindows(o) ==
    /\ platform = "windows"
    /\ files[o].st = "Open"
    /\ \E out \in Outcomes, out2 \in Outcomes :
        LET c == WindowsClose(files[o], tab, errno, out, out2) IN
        /\ tab' = c.tab
        /\ errno' = c.errno
        /\ res' = [res EXCEPT ![o] = c.ret]
        /\ sys' = [sys EXCEPT ![o] = [done |-> TRUE, rc |-> c.rc, oserr |-> c.oserr,
                                          ret |-> c.ret.kind]]
        /\ ncalls' = [ncalls EXCEPT ![o] = @ + c.n]
        /\ files' = [files EXCEPT ![o].st = StateAfter(platform, c.ret)]
    /\ UNCHANGED <<platform, nextObj, shown>>

\* A file object that goes out of scope without close(): the standard library
\* invokes the close primitive and discards its error.
DropFile(o) ==
    /\ files[o].st = "Open"
    /\ \E out \in Outcomes :
        LET c == IF platform = "unix"
                 THEN LibcClose(tab, errno, files[o].raw, out)
                 ELSE CloseHandle(tab, errno, files[o].raw, out) IN
        /\ tab' = c.tab
        /\ errno' = c.errno
    /\ ncalls' = [ncalls EXCEPT ![o] = @ + 1]
    /\ files' = [files EXCEPT ![o].st = "Dropped"]
    /\ UNCHANGED <<platform, nextObj, res, sys, shown>>

\* The caller lets the Result of close() go: Ok(()) holds nothing, and a
\* CloseError is dropped field by field.
DropResult(o) ==
    /\ res[o].kind \in {"ok", "err"}
    /\ tab' = IF res[o].kind = "err" THEN DropCloseError(res[o], tab) ELSE tab
    /\ res' = [res EXCEPT ![o] = Gone]
    /\ UNCHANGED <<platform, errno, nextObj, files, sys, ncalls, shown>>

\* The caller rebuilds a file object from the raw value a CloseError reports
\* (File::from_raw_fd / from_raw_handle on raw_fd() / raw_handle()).  The
\* standard library requires the value to name an open file nobody else owns.
\* The accessor borrows the error, which the caller keeps.
Recover(o) ==
    /\ res[o].kind = "err"
    /\ nextObj <= MaxFiles
    /\ LET r == IF platform = "unix" THEN raw_fd(res[o]) ELSE raw_handle(res[o]) IN
        /\ r \in Raws
        /\ tab[r] # 0
        /\ Owners(tab[r]) = {}
        /\ files' = [files EXCEPT ![nextObj] =
                        [st |-> "Open", raw |-> r, inst |-> tab[r]]]
    /\ nextObj' = nextObj + 1
    /\ UNCHANGED <<platform, tab, errno, res, sys, ncalls, shown>>

\* The caller reads a CloseError through one of its accessors.
ReadRaw(o) ==
    /\ res[o].kind = "err"
    /\ shown' = [obj |-> o, what |-> "raw",
                 val |-> IF platform = "unix" THEN raw_fd(res[o]) ELSE raw_handle(res[o]),
                 text |-> <<>>]
    /\ UNCHANGED <<platform, tab, errno, nextObj, files, res, sys, ncalls>>

ReadIoError(o) ==
    /\ res[o].kind = "err"
    /\ shown' = [obj |-> o, what |-> "io_error", val |-> as_io_error(res[o]), text |-> <<>>]
    /\ UNCHANGED <<platform, tab, errno, nextObj, files, res, sys, ncalls>>

ReadDisplay(o) ==
    /\ res[o].kind = "err"
    /\ shown' = [obj |-> o, what |-> "display", val |-> 0, text |-> Display(res[o])]
    /\ UNCHANGED <<platform, tab, errno, nextObj, files, res, sys, ncalls>>

ReadDebug(o) ==
    /\ res[o].kind = "err"
    /\ shown' = [obj |-> o, what |-> "debug", val |-> 0, text |-> Debug(res[o])]
    /\ UNCHANGED <<platform, tab, errno, nextObj, files, res, sys, ncalls>>

Next ==
    \/ Create
    \/ \E o \in Objs : Write(o)
    \/ \E o \in Objs : CloseUnix(o)
    \/ \E o \in Objs : CloseWindows(o)
    \/ \E o \in Objs : DropFile(o)
    \/ \E o \in Objs : DropResult(o)
    \/ \E o \in Objs : Recover(o)
    \/ \E o \in Objs : ReadRaw(o)
    \/ \E o \in Objs : ReadIoError(o)
    \/ \E o \in Objs : ReadDisplay(o)
    \/ \E o \in Objs : ReadDebug(o)

Spec == Init /\ [][Next]_vars

------------------------------------------------------------------------------
(* Properties *)

Consumed == {"Closed", "FailedClosed", "FailedOpen"}
\* The open file that object o was created for is still open in the OS.
Live(o) == files[o].raw \in Raws /\ tab[files[o].raw] = files[o].inst

\* C1: on unix, close() returns Ok(()) whenever the OS close primitive returned
\* zero, and a CloseError only when the primitive reported a failure.
C1_ZeroMeansOk ==
    platform = "unix" =>
        \A o \in Objs : sys[o].done =>
            /\ sys[o].rc = 0 => sys[o].ret = "ok"
            /\ sys[o].ret = "err" => sys[o].oserr # 0

\* C2: on unix, whenever the OS close primitive reports a failure (nonzero
\* return), close() returns a CloseError and never Ok(()).
C2_FailureIsReturned ==
    platform = "unix" =>
        \A o \in Objs : (sys[o].done /\ sys[o].rc # 0) => sys[o].ret = "err"

\* C3: on windows, close() returns Ok(()), retaining no handle, exactly when
\* CloseHandle returned nonzero, and a CloseError exactly when it returned zero.
C3_WindowsBranch ==
    platform = "windows" =>
        \A o \in Objs : sys[o].done =>
            /\ sys[o].rc # 0 <=> sys[o].ret = "ok"
            /\ sys[o].rc = 0 <=> sys[o].ret = "err"
            /\ sys[o].ret = "ok" => res[o].raw = 0 /\ ~Live(o)
            /\ sys[o].ret = "ok" <=> sys[o].oserr = 0

C3_Witness ==
    /\ platform = "windows"
    /\ \E o, q \in Objs :
        /\ sys[o].done /\ sys[o].rc # 0 /\ res[o] = OkUnit
        /\ sys[q].done /\ sys[q].rc = 0 /\ res[q].kind = "err"

\* C4, as stated: on windows every handle that survives a failed close() has
\* exactly one owning file object at every moment (the one inside the
\* CloseError, or the one the caller took out of it).
C4_SurvivorHasOneOwner ==
    platform = "windows" =>
        \A o \in Objs : (files[o].st = "FailedOpen" /\ Live(o)) =>
            Cardinality(Owners(files[o].inst)) = 1

\* C4, amended: on windows a failed close() returns a CloseError that holds
\* only the raw value of the handle the consumed file object owned; the handle
\* is still open in the OS and no file object owns it.
C4_ErrorHoldsRawHandle ==
    [][\A o \in Objs :
        (platform = "windows" /\ files[o].st = "Open" /\ files'[o].st = "FailedOpen") =>
            /\ res'[o].kind = "err"
            /\ raw_handle(res'[o]) = files[o].raw
            /\ tab'[files[o].raw] = files[o].inst
            /\ Owners(files[o].inst)' = {}]_vars

C4_Witness ==
    /\ platform = "windows"
    /\ \E o \in Objs :
        /\ files[o].st = "FailedOpen" /\ res[o].kind = "err"
        /\ raw_handle(res[o]) = files[o].raw
        /\ Live(o) /\ Owners(files[o].inst) = {}

\* C5: on unix, the value raw_fd() returns for the CloseError of a close() is
\* the raw descriptor the file object owned before the call, every time it is
\* read.
C5_RawFdIsTheDescriptor ==
    platform = "unix" =>
        /\ \A o \in Objs : res[o].kind = "err" => raw_fd(res[o]) = files[o].raw
        /\ shown.what = "raw" => shown.val = files[shown.obj].raw

C5_Witness ==
    /\ platform = "unix"
    /\ shown.what = "raw"
    /\ res[shown.obj].kind = "err"
    /\ shown.val = files[shown.obj].raw
    /\ ~Live(shown.obj)

\* C6: whatever the caller does, the OS close primitive is invoked at most once
\* for a file object: exactly once by close(), with no release at scope exit
\* after it, and a consumed object admits no further operation.
C6_ClosedAtMostOnce ==
    \A o \in Objs :
        /\ ncalls[o] <= 1
        /\ files[o].st = "Open" => ncalls[o] = 0
        /\ files[o].st \in Consumed =>
            /\ ncalls[o] = 1
            /\ ~ENABLED (Write(o) \/ CloseUnix(o) \/ CloseWindows(o) \/ DropFile(o))

C6_Witness ==
    \E o \in Objs :
        /\ files[o].st \in Consumed
        /\ res[o].kind = "gone"
        /\ ncalls[o] = 1

\* C7: the OS error inside a CloseError is the error that the failing close
\* primitive of that same close() call set.
C7_ErrorIsFromThisClose ==
    \A o \in Objs : res[o].kind = "err" =>
        /\ sys[o].oserr # 0
        /\ as_io_error(res[o]) = sys[o].oserr

\* C8, as stated: on windows, once the CloseError of a failed close() has been
\* dropped, the handle is not left open with no owner.
C8_DroppedErrorReleases ==
    platform = "windows" =>
        \A o \in Objs :
            (files[o].st = "FailedOpen" /\ res[o].kind = "gone" /\ Live(o)) =>
                Owners(files[o].inst) # {}

\* C8, amended: dropping a CloseError releases nothing and invokes no OS
\* call; on windows a handle that survived the failed close() and has no
\* owner stays open with no owner.
C8_DroppedErrorLeaks ==
    [][\A o \in Objs :
        (res[o].kind = "err" /\ res'[o].kind = "gone") =>
            /\ tab' = tab
            /\ ncalls' = ncalls
            /\ (platform = "windows" /\ Live(o) /\ Owners(files[o].inst) = {}) =>
                (Live(o)' /\ Owners(files[o].inst)' = {})]_vars

C8_Witness ==
    /\ platform = "windows"
    /\ \E o \in Objs :
        /\ files[o].st = "FailedOpen" /\ res[o].kind = "gone"
        /\ Live(o) /\ Owners(files[o].inst) = {}

\* C9: Display and Debug of a CloseError are those of the wrapped io::Error,
\* as_io_error() is that error, and reading leaves the CloseError unchanged.
C9_PassThrough ==
    /\ [](\A o \in Objs : res[o].kind = "err" =>
            /\ Display(res[o]) = IoDisplay(as_io_error(res[o]))
            /\ Debug(res[o]) = IoDebug(as_io_error(res[o]))
            /\ (shown.obj = o /\ shown.what = "display") =>
                    shown.text = IoDisplay(res[o].io_error)
            /\ (shown.obj = o /\ shown.what = "debug") =>
                    shown.text = IoDebug(res[o].io_error)
            /\ (shown.obj = o /\ shown.what = "io_error") =>
                    shown.val = res[o].io_error)
    /\ [][shown' # shown => res' = res]_vars

C9_Witness ==
    /\ shown.what = "display"
    /\ res[shown.obj].kind = "err"
    /\ res[shown.obj].io_error \in FailCodes
    /\ shown.text = IoDisplay(res[shown.obj].io_error)

\* C10: one close() call invokes the OS primitive exactly once and moves the
\* handle from Open to Closed when the close succeeded, to FailedClosed when it
\* failed on unix, to FailedOpen when it failed on windows; on unix the handle
\* is not live afterwards.
C10_TerminalStates ==
    \A o \in Objs : sys[o].done =>
        /\ ncalls[o] = 1
        /\ sys[o].oserr = 0 => files[o].st = "Closed"
        /\ (sys[o].oserr # 0 /\ platform = "unix") => files[o].st = "FailedClosed"
        /\ (sys[o].oserr # 0 /\ platform = "windows") => files[o].st = "FailedOpen"
        /\ platform = "unix" => ~Live(o)

====
